---- MODULE Spec2Model ----
(***************************************************************************)
(* A model of the GPU facade of gpu.js (src/src/gpu.js): backend selection *)
(* in the constructor, createKernel, combineKernels and the callable it    *)
(* returns, execute, addFunction and getCanvas.                            *)
(*                                                                         *)
(* JavaScript values are encoded as follows.  Kernels live in a heap, the  *)
(* sequence `kernels`; a reference to a kernel is its index, and Null (0)  *)
(* stands for null / undefined.  Call arguments are numbers (the values on *)
(* which the Array constructor is irregular).  A thrown value is named by  *)
(* a string.                                                               *)
(***************************************************************************)
EXTENDS Integers, Sequences, FiniteSets, TLC

\* ------------------------------------------------------------ bounds
MaxKernels == 2      \* kernels built on one facade
MaxCombine == 3      \* kernels handed to one combineKernels call
MaxDim == 2          \* largest size of one kernel dimension
MaxTex == 3          \* largest side of a texture

Null == 0
Undefined == 0

VARIABLES
    isWebGlSupported,           \* utils.isWebGlSupported, the capability probe
    phase,                      \* "new" | "ready" | "failed": the constructor's progress
    canvas,                     \* this.canvas
    webGl,                      \* this.webGl
    runner,                     \* this._runner
    kernelSynchronousExecutor,  \* this._kernelSynchronousExecutor
    kernels,                    \* the Kernel objects built so far
    combined,                   \* the value the last combineKernels call returned
    last                        \* what the last call did: its inputs and its outcome

vars == <<isWebGlSupported, phase, canvas, webGl, runner, kernelSynchronousExecutor,
          kernels, combined, last>>

\* ------------------------------------------------------------ values
ModeSettings == {"", "cpu", "gpu", "webgl", "webgl-validator", "CPU", "bogus"}
FnValues == {"undefined", "null", "number", "function"}
ArgLists == {<<>>, <<2>>, <<1, 2>>}
SettingsSurfaces == {0}
FunctionNames == {"f"}
Combinators == {1}

Min(a, b) == IF a < b THEN a ELSE b

SeqsUpTo(S, n) == UNION {[1..m -> S] : m \in 0..n}

NoRunner == [cls |-> "none", Kernel |-> "none", mode |-> "none", canvas |-> 0, webGl |-> 0]

NoCallable == [closure |-> FALSE, combinedKernel |-> Null, lastKernel |-> Null]

NoPromise == [state |-> "none", value |-> 0, reason |-> ""]

Blank ==
    [op |-> "none", outcome |-> "none", error |-> "", input |-> "", ret |-> 0,
     args |-> <<>>, passed |-> <<>>, invoked |-> Null, raised |-> "", returned |-> 0,
     promise |-> NoPromise, buildAsked |-> FALSE, ks |-> <<>>, trace |-> <<>>,
     decoded |-> <<>>]

\* ------------------------------------------------------------ constructor
\* String.prototype.toLowerCase on the mode strings of the model.
toLowerCase(s) == IF s = "CPU" THEN "cpu" ELSE s

\* Lines 17-21: the default mode, then the fallback when the probe fails.
resolveMode(settingsMode, supported) ==
    LET mode == IF settingsMode = "" THEN "webgl" ELSE settingsMode
    IN  IF ~supported THEN "cpu" ELSE mode

\* The two runner classes; `mode` is the value of their mode accessor.
CPURunner(rs) ==
    [cls |-> "CPURunner", Kernel |-> "CPUKernel", mode |-> "cpu",
     canvas |-> rs.canvas, webGl |-> rs.webGl]

WebGLRunner(rs) ==
    [cls |-> "WebGLRunner", Kernel |-> "WebGLKernel", mode |-> "webgl",
     canvas |-> rs.canvas, webGl |-> rs.webGl]

\* Lines 28-44: the switch on the lower-cased mode.
selectRunner(mode, runnerSettings) ==
    LET m == toLowerCase(mode)
    IN  CASE m = "cpu" -> [threw |-> FALSE, runner |-> CPURunner(runnerSettings)]
          [] m \in {"gpu", "webgl"} -> [threw |-> FALSE, runner |-> WebGLRunner(runnerSettings)]
          [] m = "webgl-validator" ->
                [threw |-> FALSE,
                 runner |-> [WebGLRunner(runnerSettings) EXCEPT !.Kernel = "WebGLValidatorKernel"]]
          [] OTHER -> [threw |-> TRUE, runner |-> NoRunner]

\* new GPU(settings)
constructor(settingsMode, surface) ==
    /\ phase = "new"
    /\ LET mode == resolveMode(settingsMode, isWebGlSupported)
           sel == selectRunner(mode, [canvas |-> surface, webGl |-> surface])
       IN  /\ canvas' = surface
           /\ webGl' = surface
           /\ kernelSynchronousExecutor' = Null
           /\ runner' = sel.runner
           /\ phase' = IF sel.threw THEN "failed" ELSE "ready"
           /\ last' = [Blank EXCEPT !.op = "constructor", !.input = settingsMode,
                          !.outcome = IF sel.threw THEN "throw" ELSE "return",
                          !.error = IF sel.threw THEN "mode is not defined" ELSE ""]
    /\ UNCHANGED <<isWebGlSupported, kernels, combined>>

\* ------------------------------------------------------------ kernels
\* Kernel settings the model builds kernels from: thread dimensions of
\* length 1 to 3, the output format and the texture size the backend chose.
Dimensions == UNION {[1..n -> 1..MaxDim] : n \in 1..3}

AllShapes ==
    {[dimensions |-> d, floatOutput |-> f, texSize |-> <<tw, th>>] :
        d \in Dimensions, f \in BOOLEAN, tw \in 1..MaxTex, th \in 1..MaxTex}

MainShapes == {[dimensions |-> <<2, 2>>, floatOutput |-> FALSE, texSize |-> <<2, 2>>]}

\* The kernel's threadDim: its dimensions padded with 1 to three entries.
threadDim(dimensions) == [i \in 1..3 |-> IF i <= Len(dimensions) THEN dimensions[i] ELSE 1]

\* utils.isFunction
isFunction(fn) == fn = "function"

\* runner.buildKernel(fn, settings): a new Kernel, with a canvas and a
\* context of its own (named by the kernel's index in the heap).
buildKernel(shape, id) ==
    [canvas |-> id, webGl |-> id, outputToTexture |-> FALSE,
     floatOutput |-> shape.floatOutput, dimensions |-> shape.dimensions,
     threadDim |-> threadDim(shape.dimensions), texSize |-> shape.texSize]

\* Kernel.setCanvas, Kernel.setWebGl, Kernel.setOutputToTexture
setCanvas(k, c) == [k EXCEPT !.canvas = c]

setWebGl(k, gl) == [k EXCEPT !.webGl = gl]

setOutputToTexture(k, b) == [k EXCEPT !.outputToTexture = b]

\* The value a kernel returns when it is invoked with args and does not throw.
kernelValue(k, args) == 100 * k + Len(args)

\* ------------------------------------------------------------ createKernel
\* Lines 74-79: the parameter checks; "" when they pass, else the thrown string.
createKernelChecksNoIsFunction(fn) ==
    IF fn = "undefined" THEN "Missing fn parameter" ELSE ""

createKernelChecks(fn) ==
    IF fn = "undefined" THEN "Missing fn parameter"
    ELSE IF ~isFunction(fn) THEN "fn parameter not a function"
    ELSE ""

\* createKernel(fn, settings); buildOk says whether runner.buildKernel returns
\* (or throws, as a compiler may).
createKernel(fn, shape, buildOk) ==
    /\ phase = "ready"
    /\ LET err == createKernelChecks(fn)
           id == Len(kernels) + 1
       IN  IF err # ""
           THEN /\ last' = [Blank EXCEPT !.op = "createKernel", !.input = fn,
                               !.outcome = "throw", !.error = err]
                /\ UNCHANGED <<kernels, kernelSynchronousExecutor>>
           ELSE IF ~buildOk
           THEN /\ last' = [Blank EXCEPT !.op = "createKernel", !.input = fn,
                               !.outcome = "throw", !.error = "BuildError",
                               !.buildAsked = TRUE]
                /\ UNCHANGED <<kernels, kernelSynchronousExecutor>>
           ELSE /\ Len(kernels) < MaxKernels
                /\ kernels' = Append(kernels, buildKernel(shape, id))
                /\ kernelSynchronousExecutor' = id
                /\ last' = [Blank EXCEPT !.op = "createKernel", !.input = fn,
                               !.outcome = "return", !.ret = id, !.buildAsked = TRUE]
    /\ UNCHANGED <<isWebGlSupported, phase, canvas, webGl, runner, combined>>

\* ------------------------------------------------------------ execute
\* The Array constructor applied to a list of numbers: one number n gives an
\* array of n empty slots, anything else gives the list itself.
ArrayApply(arguments) ==
    IF Len(arguments) = 1
    THEN [i \in 1..arguments[1] |-> Undefined]
    ELSE arguments

\* Line 148
executeArgsNoSpecialCase(arguments) == ArrayApply(arguments)

executeArgs(arguments) ==
    IF Len(arguments) = 1 THEN <<arguments[1]>> ELSE ArrayApply(arguments)

\* Lines 153-162: the promise's executor. The invocation either threw e or
\* returned v; utils.newPromise runs the executor at once and returns the handle.
executeSettleNoTry(threw, e, v) ==
    IF threw
    THEN [outcome |-> "throw", error |-> e, promise |-> NoPromise]
    ELSE [outcome |-> "return", error |-> "",
          promise |-> [state |-> "fulfilled", value |-> v, reason |-> ""]]

executeSettle(threw, e, v) ==
    IF threw
    THEN [outcome |-> "return", error |-> "",
          promise |-> [state |-> "rejected", value |-> 0, reason |-> e]]
    ELSE [outcome |-> "return", error |-> "",
          promise |-> [state |-> "fulfilled", value |-> v, reason |-> ""]]

\* Line 155: the callee of execute
executeCallee == kernelSynchronousExecutor

\* execute(...arguments); kernelThrows says whether the kernel raises an error.
execute(arguments, kernelThrows) ==
    /\ phase = "ready"
    /\ LET args == executeArgs(arguments)
           k == executeCallee
           threw == k = Null \/ kernelThrows
           e == IF k = Null THEN "TypeError" ELSE "KernelError"
           v == IF threw THEN 0 ELSE kernelValue(k, args)
           settled == executeSettle(threw, e, v)
       IN  last' = [Blank EXCEPT !.op = "execute", !.args = arguments,
                       !.invoked = k, !.passed = IF k = Null THEN <<>> ELSE args,
                       !.raised = IF threw THEN e ELSE "", !.returned = v,
                       !.outcome = settled.outcome, !.error = settled.error,
                       !.promise = settled.promise]
    /\ UNCHANGED <<isWebGlSupported, phase, canvas, webGl, runner,
                   kernelSynchronousExecutor, kernels, combined>>

\* ------------------------------------------------------------ addFunction, getCanvas
\* Lines 182-185: the registration is forwarded to runner.functionBuilder, whose
\* state is the runner's own; the facade returns itself.
addFunction(name) ==
    /\ phase = "ready"
    /\ last' = [Blank EXCEPT !.op = "addFunction", !.input = name, !.outcome = "return"]
    /\ UNCHANGED <<isWebGlSupported, phase, canvas, webGl, runner,
                   kernelSynchronousExecutor, kernels, combined>>

\* Lines 205-207
getCanvas ==
    /\ phase = "ready"
    /\ last' = IF kernelSynchronousExecutor = Null
               THEN [Blank EXCEPT !.op = "getCanvas", !.outcome = "throw",
                        !.error = "TypeError"]
               ELSE [Blank EXCEPT !.op = "getCanvas", !.outcome = "return",
                        !.ret = kernels[kernelSynchronousExecutor].canvas]
    /\ UNCHANGED <<isWebGlSupported, phase, canvas, webGl, runner,
                   kernelSynchronousExecutor, kernels, combined>>

\* ------------------------------------------------------------ combineKernels
\* Lines 129-131: the mode accessor
mode == runner.mode

\* Line 87
combineIsCpuUpperCase == mode = "CPU"

combineIsCpu == mode = "cpu"

\* Line 92: the indices (from 0) of `arguments` the loop visits, for nargs arguments
combineLoopSkipFirst(nargs) == 1..(nargs - 2)

combineLoop(nargs) == 0..(nargs - 2)

\* Lines 89-97: the kernels after the loop; ks are the kernel arguments, in
\* order, and the combinator is the last argument.
combineConfigure(ks) ==
    IF ks = <<>> THEN kernels
    ELSE LET cv == kernels[ks[1]].canvas
             gl == kernels[ks[1]].webGl
         IN  [k \in DOMAIN kernels |->
                IF \E i \in combineLoop(Len(ks) + 1) : ks[i + 1] = k
                THEN setOutputToTexture(setWebGl(setCanvas(kernels[k], cv), gl), TRUE)
                ELSE kernels[k]]

\* Line 85: arguments[arguments.length - 2]
combineLastKernel(ks) == IF ks = <<>> THEN Null ELSE ks[Len(ks)]

\* combineKernels(k1, ..., kn, combinator)
combineKernels(ks, c) ==
    /\ phase = "ready"
    /\ IF combineIsCpu
       THEN /\ combined' = [closure |-> FALSE, combinedKernel |-> c, lastKernel |-> Null]
            /\ kernels' = kernels
       ELSE /\ kernels' = combineConfigure(ks)
            /\ combined' = [closure |-> TRUE, combinedKernel |-> c,
                            lastKernel |-> combineLastKernel(ks)]
    /\ last' = [Blank EXCEPT !.op = "combineKernels", !.ks = ks, !.ret = c,
                   !.outcome = "return"]
    /\ UNCHANGED <<isWebGlSupported, phase, canvas, webGl, runner,
                   kernelSynchronousExecutor>>

\* ------------------------------------------------------------ the combined callable
Event(ev, k, gl, args) == [ev |-> ev, k |-> k, gl |-> gl, args |-> args]

\* The members of a set of kernel references, in increasing order
Sorted(S) == SelectSeq([i \in 1..Len(kernels) |-> i], LAMBDA x : x \in S)

\* The caller's combinator c, called with args: it invokes the kernels in
\* `ran` and then returns or throws.
combinatorCall(c, args, ran, threw) ==
    <<Event("combinator", c, 0, args)>>
    \o [i \in 1..Cardinality(ran) |->
            Event("kernel", Sorted(ran)[i], kernels[Sorted(ran)[i]].webGl, <<>>)]
    \o <<Event(IF threw THEN "combinatorThrow" ELSE "combinatorReturn", c, 0, <<>>)>>

\* gl.readPixels: the content of context gl's framebuffer, as bytes and as floats
PixelByte(gl, j) == (7 * gl + j) % 100

PixelFloat(gl, j) == 1000 * gl + j

\* new Float32Array(bytes.buffer): four consecutive bytes are one float
\* (named here by its little-endian bit pattern)
Float32ArrayOf(bytes) ==
    [i \in 1..(Len(bytes) \div 4) |->
        bytes[4 * i - 3] + 256 * bytes[4 * i - 2] + 65536 * bytes[4 * i - 1]
            + 16777216 * bytes[4 * i]]

\* Lines 101-112: the buffer read back from kernel k's context
readback(k) ==
    LET n == k.texSize[1] * k.texSize[2] * 4
    IN  IF k.floatOutput
        THEN [j \in 1..n |-> PixelFloat(k.webGl, j)]
        ELSE Float32ArrayOf([j \in 1..n |-> PixelByte(k.webGl, j)])

\* TypedArray.prototype.subarray(0, end)
subarray(a, end) == SubSeq(a, 1, Min(end, Len(a)))

\* utils.splitArray(array, part): consecutive chunks of `part` elements
splitArray(array, part) ==
    [i \in 1..((Len(array) + part - 1) \div part) |->
        SubSeq(array, (i - 1) * part + 1, Min(i * part, Len(array)))]

\* Lines 114-125
decodeInnerByHeight(k, buffer) ==
    LET result == subarray(buffer, k.threadDim[1] * k.threadDim[2] * k.threadDim[3])
        dims == k.dimensions
    IN  CASE Len(dims) = 1 -> result
          [] Len(dims) = 2 -> splitArray(result, dims[2])
          [] Len(dims) = 3 ->
                LET cube == splitArray(result, dims[1] * dims[2])
                IN  [i \in DOMAIN cube |-> splitArray(cube[i], dims[2])]

decode(k, buffer) ==
    LET result == subarray(buffer, k.threadDim[1] * k.threadDim[2] * k.threadDim[3])
        dims == k.dimensions
    IN  CASE Len(dims) = 1 -> result
          [] Len(dims) = 2 -> splitArray(result, dims[1])
          [] Len(dims) = 3 ->
                LET cube == splitArray(result, dims[1] * dims[2])
                IN  [i \in DOMAIN cube |-> splitArray(cube[i], dims[1])]

\* Lines 99-126: the function combineKernels returns, called with `arguments`
combinedCallReadsFirst(arguments, ran, threw) ==
    LET lk == combined.lastKernel
        rd == IF lk = Null THEN <<>>
              ELSE <<Event("readPixels", lk, kernels[lk].webGl, <<>>)>>
        call == combinatorCall(combined.combinedKernel, arguments, ran, threw)
    IN  IF threw
        THEN [outcome |-> "throw", error |-> "CombinatorError", trace |-> rd \o call,
              decoded |-> <<>>]
        ELSE IF lk = Null
        THEN [outcome |-> "throw", error |-> "TypeError", trace |-> call, decoded |-> <<>>]
        ELSE [outcome |-> "return", error |-> "", trace |-> rd \o call,
              decoded |-> decode(kernels[lk], readback(kernels[lk]))]

combinedCall(arguments, ran, threw) ==
    LET lk == combined.lastKernel
        call == combinatorCall(combined.combinedKernel, arguments, ran, threw)
    IN  IF threw
        THEN [outcome |-> "throw", error |-> "CombinatorError", trace |-> call,
              decoded |-> <<>>]
        ELSE IF lk = Null
        THEN [outcome |-> "throw", error |-> "TypeError", trace |-> call, decoded |-> <<>>]
        ELSE [outcome |-> "return", error |-> "",
              trace |-> call \o <<Event("readPixels", lk, kernels[lk].webGl, <<>>)>>,
              decoded |-> decode(kernels[lk], readback(kernels[lk]))]

\* The combinator itself, which is what combineKernels returns in cpu mode
plainCall(arguments, ran, threw) ==
    [outcome |-> IF threw THEN "throw" ELSE "return",
     error |-> IF threw THEN "CombinatorError" ELSE "",
     trace |-> combinatorCall(combined.combinedKernel, arguments, ran, threw),
     decoded |-> <<>>]

\* A call of the value combineKernels returned
invokeCombined(arguments, ran, threw) ==
    /\ phase = "ready"
    /\ combined.combinedKernel # Null
    /\ LET r == IF combined.closure THEN combinedCall(arguments, ran, threw)
                ELSE plainCall(arguments, ran, threw)
       IN  last' = [Blank EXCEPT !.op = "invokeCombined", !.args = arguments,
                       !.outcome = r.outcome, !.error = r.error, !.trace = r.trace,
                       !.decoded = r.decoded]
    /\ UNCHANGED <<isWebGlSupported, phase, canvas, webGl, runner,
                   kernelSynchronousExecutor, kernels, combined>>

\* ------------------------------------------------------------ specification
Init ==
    /\ isWebGlSupported \in BOOLEAN
    /\ phase = "new"
    /\ canvas = 0
    /\ webGl = 0
    /\ runner = NoRunner
    /\ kernelSynchronousExecutor = Null
    /\ kernels = <<>>
    /\ combined = NoCallable
    /\ last = Blank

Next ==
    \/ \E m \in ModeSettings, s \in SettingsSurfaces : constructor(m, s)
    \/ \E fn \in FnValues, shape \in MainShapes, ok \in BOOLEAN : createKernel(fn, shape, ok)
    \/ \E a \in ArgLists, t \in BOOLEAN : execute(a, t)
    \/ \E f \in FunctionNames : addFunction(f)
    \/ getCanvas
    \/ \E ks \in SeqsUpTo(1..Len(kernels), MaxCombine), c \in Combinators : combineKernels(ks, c)
    \/ \E a \in ArgLists, ran \in SUBSET (1..Len(kernels)), t \in BOOLEAN :
            invokeCombined(a, ran, t)

Spec == Init /\ [][Next]_vars

\* The decoder's specification: one facade with the accelerated backend and
\* one kernel of any shape, combined and called.
InitDecode ==
    /\ isWebGlSupported = TRUE
    /\ phase = "ready"
    /\ canvas = 0
    /\ webGl = 0
    /\ runner = WebGLRunner([canvas |-> 0, webGl |-> 0])
    /\ kernelSynchronousExecutor = Null
    /\ kernels = <<>>
    /\ combined = NoCallable
    /\ last = Blank

NextDecode ==
    \/ \E shape \in AllShapes : kernels = <<>> /\ createKernel("function", shape, TRUE)
    \/ \E c \in Combinators : kernels # <<>> /\ combineKernels(<<1>>, c)
    \/ \E a \in ArgLists, ran \in SUBSET (1..Len(kernels)), t \in BOOLEAN :
            invokeCombined(a, ran, t)

SpecDecode == InitDecode /\ [][NextDecode]_vars

\* ------------------------------------------------------------ properties
Events(ev) == {i \in DOMAIN last.trace : last.trace[i].ev = ev}

\* C1: execute always returns a deferred handle and never throws; the handle
\* is rejected with the error the invocation raised (also when there is no
\* kernel to invoke), and otherwise fulfilled with the kernel's return value.
C1_ExecuteDefers ==
    last.op = "execute" =>
        /\ last.outcome = "return"
        /\ last.raised # "" =>
              last.promise = [state |-> "rejected", value |-> 0, reason |-> last.raised]
        /\ last.raised = "" =>
              last.promise = [state |-> "fulfilled", value |-> last.returned, reason |-> ""]

C1_Witness ==
    /\ last.op = "execute"
    /\ last.invoked # Null
    /\ last.raised = "KernelError"
    /\ last.promise.state = "rejected"

\* C2: constructing with an explicit mode string that is none of cpu, gpu,
\* webgl, webgl-validator throws and constructs no runner, whatever the probe says.
C2_UnknownModeThrows ==
    (/\ last.op = "constructor"
     /\ last.input # ""
     /\ toLowerCase(last.input) \notin {"cpu", "gpu", "webgl", "webgl-validator"})
    => (last.outcome = "throw" /\ runner = NoRunner)

\* C3: createKernel with fn absent or not callable throws before the runner is
\* asked to build, and leaves the current executor (and the kernels) as they were.
C3_CreateKernelRejects ==
    [][(last'.op = "createKernel" /\ last'.input # "function") =>
          /\ last'.outcome = "throw"
          /\ last'.error \in {"Missing fn parameter", "fn parameter not a function"}
          /\ ~last'.buildAsked
          /\ kernelSynchronousExecutor' = kernelSynchronousExecutor
          /\ kernels' = kernels]_vars

C3_Witness ==
    /\ last.op = "createKernel"
    /\ last.input = "number"
    /\ last.outcome = "throw"
    /\ kernelSynchronousExecutor # Null

\* C4: the current executor is always the kernel the most recent successful
\* createKernel returned (kernels are numbered in the order they are built), and
\* execute invokes that kernel with exactly the caller's argument list.
C4_ExecutesLatestKernel ==
    /\ kernelSynchronousExecutor = Len(kernels)
    /\ (last.op = "execute" /\ kernelSynchronousExecutor # Null) =>
          (last.invoked = kernelSynchronousExecutor /\ last.passed = last.args)

C4_Witness ==
    /\ last.op = "execute"
    /\ Len(kernels) = 2
    /\ last.invoked = 2
    /\ last.args = <<2>>
    /\ combined.closure

\* C5: in cpu mode combineKernels returns the combinator itself and changes no
\* kernel, and a call of what it returned reads nothing back.
C5_CpuCombineIsIdentity ==
    [][/\ (last'.op = "combineKernels" /\ mode = "cpu") =>
              /\ combined' = [closure |-> FALSE, combinedKernel |-> last'.ret,
                              lastKernel |-> Null]
              /\ kernels' = kernels
              /\ kernelSynchronousExecutor' = kernelSynchronousExecutor
              /\ runner' = runner
       /\ (last'.op = "invokeCombined" /\ mode = "cpu") =>
              \A i \in DOMAIN last'.trace : last'.trace[i].ev # "readPixels"]_vars

C5_Witness ==
    /\ last.op = "invokeCombined"
    /\ mode = "cpu"
    /\ isWebGlSupported
    /\ Len(kernels) = 2
    /\ last.outcome = "return"
    /\ Events("kernel") # {}

\* C6: in a mode other than cpu, after combineKernels(k1..kn, combinator) every
\* kernel but the last has outputToTexture set and has the canvas and the
\* context k1 had before the call.
C6_CombineConfigures ==
    [][(last'.op = "combineKernels" /\ mode # "cpu") =>
          \A i \in 1..(Len(last'.ks) - 1) :
              /\ kernels'[last'.ks[i]].outputToTexture
              /\ kernels'[last'.ks[i]].canvas = kernels[last'.ks[1]].canvas
              /\ kernels'[last'.ks[i]].webGl = kernels[last'.ks[1]].webGl]_vars

C6_Witness ==
    /\ last.op = "combineKernels"
    /\ mode # "cpu"
    /\ Len(last.ks) = 3
    /\ last.ks[1] # last.ks[2]
    /\ kernels[last.ks[2]].outputToTexture
    /\ kernels[last.ks[2]].canvas = kernels[last.ks[1]].canvas

\* C7: when the buffer read back holds at least w*h*d elements, the combined
\* callable returns, for dimensions (w), (w,h), (w,h,d): the first w elements;
\* h rows of w with [y][x] = buffer[y*w + x]; d groups of h rows of w with
\* [z][y][x] = buffer[z*w*h + y*w + x] (indices from 0).
C7_Decode ==
    (last.op = "invokeCombined" /\ last.outcome = "return" /\ combined.closure) =>
        LET k == kernels[combined.lastKernel]
            dims == k.dimensions
            w == dims[1]
            h == IF Len(dims) >= 2 THEN dims[2] ELSE 1
            d == IF Len(dims) >= 3 THEN dims[3] ELSE 1
            buf == readback(k)
        IN  Len(buf) >= w * h * d =>
              CASE Len(dims) = 1 -> last.decoded = [x \in 1..w |-> buf[x]]
                [] Len(dims) = 2 ->
                      last.decoded = [y \in 1..h |-> [x \in 1..w |-> buf[(y - 1) * w + x]]]
                [] Len(dims) = 3 ->
                      last.decoded =
                          [z \in 1..d |-> [y \in 1..h |-> [x \in 1..w |->
                              buf[(z - 1) * w * h + (y - 1) * w + x]]]]

C7_Witness ==
    /\ last.op = "invokeCombined"
    /\ last.outcome = "return"
    /\ combined.closure
    /\ kernels[1].dimensions = <<2, 1, 2>>
    /\ ~kernels[1].floatOutput
    /\ kernels[1].texSize = <<3, 2>>
    /\ Len(last.decoded) = 2
    /\ Len(last.decoded[1]) = 1
    /\ Len(last.decoded[1][1]) = 2

\* C8: getCanvas with no kernel created fails with NoActiveKernelError, and
\* otherwise returns the current executor's canvas.
C8_GetCanvasChecked ==
    last.op = "getCanvas" =>
        IF kernelSynchronousExecutor = Null
        THEN last.outcome = "throw" /\ last.error = "NoActiveKernelError"
        ELSE last.outcome = "return" /\ last.ret = kernels[kernelSynchronousExecutor].canvas

\* C9: a call of the combined callable whose combinator returns without having
\* run the last kernel fails with ExecutionError and returns no decoded result.
C9_UnexecutedLastKernelFails ==
    (/\ last.op = "invokeCombined"
     /\ combined.closure
     /\ combined.lastKernel # Null
     /\ Events("combinatorReturn") # {}
     /\ \A i \in Events("kernel") : last.trace[i].k # combined.lastKernel)
    => (last.outcome = "throw" /\ last.error = "ExecutionError" /\ last.decoded = <<>>)

\* C10: in one call of the combined callable the combinator is called once,
\* first, with the caller's arguments; at most one readback happens, after the
\* combinator returned, on the last kernel's context; none if the combinator threw.
C10_ReadbackAfterCombinator ==
    (last.op = "invokeCombined" /\ combined.closure) =>
        /\ Events("combinator") = {1}
        /\ last.trace[1].k = combined.combinedKernel
        /\ last.trace[1].args = last.args
        /\ Cardinality(Events("readPixels")) <= 1
        /\ \A i \in Events("readPixels") :
              /\ \E j \in Events("combinatorReturn") : j < i
              /\ last.trace[i].k = combined.lastKernel
              /\ last.trace[i].gl = kernels[combined.lastKernel].webGl
        /\ Events("combinatorThrow") # {} => Events("readPixels") = {}

C10_Witness ==
    /\ last.op = "invokeCombined"
    /\ combined.closure
    /\ last.args = <<1, 2>>
    /\ Events("readPixels") # {}
    /\ \E i \in Events("kernel") : last.trace[i].k # combined.lastKernel

====
